---- MODULE Spec2Model ----
(***************************************************************************)
(* Model of the VisitorCounter browser client (class VisitorCounter):      *)
(* start-up, the retrying request loop with its shared AbortController,    *)
(* response validation and the two rendering routines.                     *)
(*                                                                         *)
(* Text is modelled as a sequence of one-character strings, so that        *)
(* Number::toString, parseInt and the digits-only regex are computed as    *)
(* the JavaScript computes them.                                           *)
(***************************************************************************)
EXTENDS Integers, Sequences, FiniteSets

\* ------------------------------------------------------------------ bounds
\* Integer counts 0 .. MaxCount*CountStep are offered as response bodies.
MaxCount == 2
CountStep == 21

\* --------------------------------------------------------- CONFIG (l. 2-9)
MAX_RETRIES == 3
RETRY_DELAY == 1000
TIMEOUT == 15000

\* ------------------------------------------------------------ text helpers
Digit == <<"0", "1", "2", "3", "4", "5", "6", "7", "8", "9">>

IsDigit(c) == \E k \in 1..10 : Digit[k] = c

RECURSIVE NatDigits(_)
NatDigits(n) ==
  IF n < 10 THEN <<Digit[n + 1]>> ELSE NatDigits(n \div 10) \o <<Digit[(n % 10) + 1]>>

RECURSIVE Zeros(_)
Zeros(k) == IF k <= 0 THEN <<>> ELSE <<"0">> \o Zeros(k - 1)

RECURSIVE StripTrailingZeros(_)
StripTrailingZeros(s) ==
  IF Len(s) > 1 /\ s[Len(s)] = "0" THEN StripTrailingZeros(SubSeq(s, 1, Len(s) - 1)) ELSE s

RECURSIVE StripLeadingZeros(_)
StripLeadingZeros(s) ==
  IF Len(s) > 1 /\ s[1] = "0" THEN StripLeadingZeros(Tail(s)) ELSE s

DigitValue(c) == (CHOOSE k \in 1..10 : Digit[k] = c) - 1

RECURSIVE LexLeq(_, _)
LexLeq(a, b) ==
  IF a = <<>> THEN TRUE
  ELSE IF DigitValue(a[1]) < DigitValue(b[1]) THEN TRUE
  ELSE IF DigitValue(a[1]) > DigitValue(b[1]) THEN FALSE
  ELSE LexLeq(Tail(a), Tail(b))

\* a <= b for two non-negative integers written as digit strings
DigitsLeq(a, b) ==
  LET x == StripLeadingZeros(a)
      y == StripLeadingZeros(b)
  IN  Len(x) < Len(y) \/ (Len(x) = Len(y) /\ LexLeq(x, y))

RECURSIVE Pow2(_)
Pow2(k) == IF k = 0 THEN 1 ELSE 2 * Pow2(k - 1)

\* ------------------------------------------------------- JavaScript values
\* A value of data.count.  A finite number is 0.d1..dk * 10^n with digits
\* d1..dk (no trailing zeros), the form ECMAScript's Number::toString uses.
Num(neg, digits, n) ==
  [type |-> "number", form |-> "finite", neg |-> neg, digits |-> digits, n |-> n]

NatNum(k) == Num(FALSE, StripTrailingZeros(NatDigits(k)), Len(NatDigits(k)))

Str(chars) == [type |-> "string", form |-> "string", neg |-> FALSE, digits |-> chars, n |-> 0]

Undefined == [type |-> "undefined", form |-> "undefined", neg |-> FALSE, digits |-> <<>>, n |-> 0]

PosInfinity == [type |-> "number", form |-> "infinity", neg |-> FALSE, digits |-> <<>>, n |-> 0]

\* Number.MAX_SAFE_INTEGER = 2^53 - 1 = 9007199254740991
MAX_SAFE_INTEGER == <<"9", "0", "0", "7", "1", "9", "9", "2", "5", "4", "7", "4", "0", "9", "9", "1">>

\* 2^53, which is what JSON.parse makes of 9007199254740993
TwoPow53 == <<"9", "0", "0", "7", "1", "9", "9", "2", "5", "4", "7", "4", "0", "9", "9", "2">>

\* Number::toString(x) in radix 10
NumberToString(x) ==
  IF x.form = "infinity"
    THEN (IF x.neg THEN <<"-">> ELSE <<>>) \o <<"I", "n", "f", "i", "n", "i", "t", "y">>
  ELSE IF x.digits = <<"0">> THEN <<"0">>
  ELSE
    LET k == Len(x.digits)
        n == x.n
        sign == IF x.neg THEN <<"-">> ELSE <<>>
        e == IF n - 1 >= 0 THEN <<"e", "+">> \o NatDigits(n - 1)
                           ELSE <<"e", "-">> \o NatDigits(1 - n)
    IN  sign \o
        (IF k <= n /\ n <= 21 THEN x.digits \o Zeros(n - k)
         ELSE IF 0 < n /\ n <= 21
           THEN SubSeq(x.digits, 1, n) \o <<".">> \o SubSeq(x.digits, n + 1, k)
         ELSE IF -6 < n /\ n <= 0 THEN <<"0", ".">> \o Zeros(-n) \o x.digits
         ELSE IF k = 1 THEN x.digits \o e
         ELSE <<x.digits[1], ".">> \o SubSeq(x.digits, 2, k) \o e)

\* JSToString(v) as applied by parseInt to its argument
JSToString(v) ==
  CASE v.type = "number" -> NumberToString(v)
    [] v.type = "string" -> v.digits
    [] OTHER -> <<"u", "n", "d", "e", "f", "i", "n", "e", "d">>

RECURSIVE LeadingDigits(_)
LeadingDigits(s) ==
  IF s # <<>> /\ IsDigit(s[1]) THEN <<s[1]>> \o LeadingDigits(Tail(s)) ELSE <<>>

\* parseInt(v, 10): optional sign, then the longest prefix of digits
parseInt(v) ==
  LET s == JSToString(v)
      neg == s # <<>> /\ s[1] = "-"
      body == IF s # <<>> /\ (s[1] = "-" \/ s[1] = "+") THEN Tail(s) ELSE s
      ds == LeadingDigits(body)
  IN  [nan |-> ds = <<>>, neg |-> neg, digits |-> ds]

IsZeroDigits(ds) == \A k \in 1..Len(ds) : ds[k] = "0"

\* isValidVisitorCount without the typeof test
isValidVisitorCount_noTypeCheck(count) ==
  LET parsed == parseInt(count)
  IN  /\ ~parsed.nan
      /\ (~parsed.neg \/ IsZeroDigits(parsed.digits))
      /\ (parsed.neg \/ DigitsLeq(parsed.digits, MAX_SAFE_INTEGER))

isValidVisitorCount(count) ==
  IF count.type # "number" THEN FALSE
  ELSE LET parsed == parseInt(count)
       IN  /\ ~parsed.nan
           /\ (~parsed.neg \/ IsZeroDigits(parsed.digits))
           /\ (parsed.neg \/ DigitsLeq(parsed.digits, MAX_SAFE_INTEGER))

\* count.toString().replace(/[^\d]/g, '')
Sanitize(count) == SelectSeq(NumberToString(count), IsDigit)

\* ------------------------------------------------------------------- URLs
\* A configured API_URL: its scheme as written ("" when the string has none,
\* as a relative path or free text) and whether a host follows it.
Url(scheme, hasHost) == [scheme |-> scheme, hasHost |-> hasHost]

ApiUrls ==
  { Url("https", TRUE), Url("HTTP", TRUE), Url("ftp", TRUE),
    Url("javascript", FALSE), Url("", FALSE), Url("https", FALSE) }

\* the URL parser lower-cases the scheme
LowerCase(scheme) == IF scheme = "HTTP" THEN "http" ELSE scheme

SpecialSchemes == {"http", "https", "ftp", "ws", "wss"}

\* new URL(string): throws (result "TypeError") for a string without a
\* scheme and for a special scheme without a host; otherwise url.protocol.
URLProtocol(string) ==
  IF string.scheme = "" THEN "TypeError"
  ELSE IF LowerCase(string.scheme) \in SpecialSchemes /\ ~string.hasHost THEN "TypeError"
  ELSE LowerCase(string.scheme)

\* isValidUrl without the protocol test
isValidUrl_anyProtocol(string) == URLProtocol(string) # "TypeError"

isValidUrl(string) ==
  LET protocol == URLProtocol(string)
  IN  IF protocol = "TypeError" THEN FALSE
      ELSE protocol = "http" \/ protocol = "https"

\* --------------------------------------------------------------- responses
\* A content-type header is a sequence of tokens; includes() looks for one.
ContentTypes ==
  { <<>>, <<"application/json">>, <<"application/json", "; charset=utf-8">>, <<"text/html">> }

Statuses == {199, 200, 299, 300, 500}

Responses ==
  [kind : {"response"}, status : Statuses, contentType : ContentTypes]
    \cup {[kind |-> "TypeError", status |-> 0, contentType |-> <<>>]}

NoResponse == [kind |-> "none", status |-> 0, contentType |-> <<>>]

\* response.ok
ResponseOk(response) == response.status >= 200 /\ response.status <= 299

\* the content-type test reduced to "a header is present"
IncludesJson_anyType(contentType) == contentType # <<>>

\* contentType && contentType.includes('application/json')
IncludesJson(contentType) ==
  /\ contentType # <<>>
  /\ \E k \in 1..Len(contentType) : contentType[k] = "application/json"

\* values of data.count offered by the server
Counts ==
  { NatNum(k * CountStep) : k \in 0..MaxCount }
    \cup { Num(TRUE, <<"1">>, 1),            \* -1
           Num(FALSE, <<"1", "5">>, 1),      \* 1.5
           Num(TRUE, <<"5">>, 0),            \* -0.5
           Num(FALSE, MAX_SAFE_INTEGER, 16),
           Num(FALSE, TwoPow53, 16),
           Num(FALSE, <<"1">>, 22),          \* 1e21
           PosInfinity,                      \* 1e999
           Str(<<"a", "b", "c">>),
           Str(<<"4", "2">>),
           Undefined }

\* what response.json() yields: a parsed body or a SyntaxError
Bodies == [parse : {"ok"}, count : Counts] \cup {[parse |-> "SyntaxError", count |-> Undefined]}

\* ------------------------------------------------------------------ state
LoadingText == <<"L", "o", "a", "d", "i", "n", "g", ".", ".", ".">>
CountLabel == <<"Visitor count: ">>
ErrorMessage == "Unable to load visitor count"
ErrorLabel == "Error loading visitor count"

Methods == {"POST", "GET"}

VARIABLES
  config,      \* [API_URL, elementExists, readyState]: CONFIG and the document
  pc,          \* where the client's control is suspended
  listeners,   \* registered event listeners
  aborted,     \* this.controller.signal.aborted
  timers,      \* timeout ids (setTimeout of l. 80) still armed
  timeoutId,   \* the current attempt's timeout id
  method,      \* method of the operation in progress
  options,     \* the request options built by makeRequest
  i,           \* loop index of fetchWithRetryAndTimeout
  storage,     \* localStorage['visitorCount']
  container,   \* the element with id ELEMENT_ID
  countValue,  \* the nested element with id count-value
  uuids,       \* number of crypto.randomUUID() calls so far
  requests,    \* every fetch() call of the page load, in order
  delays,      \* backoff delays waited in the current operation
  outcomes,    \* outcome of each attempt of the current operation
  lastResponse, \* what the latest completed attempt received
  lastBody,    \* the body the latest response.json() produced
  opState,     \* per method: idle, running, ok, failed
  opError,     \* per method: the error the operation threw
  count,       \* the count the latest successful makeRequest returned
  renders,     \* number of updateDOM / handleError renderings performed
  initCalls,   \* number of initialize() calls
  unloaded,    \* "no", "idle" or "inflight": state at the first unload
  fired        \* timeout ids whose timer callback ran

vars ==
  << config, pc, listeners, aborted, timers, timeoutId, method, options, i,
     storage, container, countValue, uuids, requests, delays, outcomes,
     lastResponse, lastBody, opState, opError, count, renders, initCalls,
     unloaded, fired >>

\* the state as one record, so that a handler is a composition of routines
State ==
  [ config |-> config, pc |-> pc, listeners |-> listeners, aborted |-> aborted,
    timers |-> timers, timeoutId |-> timeoutId, method |-> method,
    options |-> options, i |-> i, storage |-> storage, container |-> container,
    countValue |-> countValue, uuids |-> uuids, requests |-> requests,
    delays |-> delays, outcomes |-> outcomes, lastResponse |-> lastResponse,
    lastBody |-> lastBody, opState |-> opState, opError |-> opError,
    count |-> count, renders |-> renders, initCalls |-> initCalls,
    unloaded |-> unloaded, fired |-> fired ]

Becomes(s) ==
  /\ config' = s.config /\ pc' = s.pc /\ listeners' = s.listeners
  /\ aborted' = s.aborted /\ timers' = s.timers /\ timeoutId' = s.timeoutId
  /\ method' = s.method /\ options' = s.options /\ i' = s.i
  /\ storage' = s.storage /\ container' = s.container
  /\ countValue' = s.countValue /\ uuids' = s.uuids /\ requests' = s.requests
  /\ delays' = s.delays /\ outcomes' = s.outcomes
  /\ lastResponse' = s.lastResponse /\ lastBody' = s.lastBody
  /\ opState' = s.opState /\ opError' = s.opError /\ count' = s.count
  /\ renders' = s.renders /\ initCalls' = s.initCalls
  /\ unloaded' = s.unloaded /\ fired' = s.fired

NoBody == [parse |-> "none", count |-> Undefined]

Init ==
  /\ config \in [API_URL : ApiUrls, elementExists : BOOLEAN, readyState : {"loading", "complete"}]
  /\ pc = "new"
  /\ listeners = {}
  /\ aborted = FALSE
  /\ timers = {}
  /\ timeoutId = 0
  /\ method = "none"
  /\ options = [method |-> "none", correlationId |-> 0]
  /\ i = 0
  /\ storage = [set |-> FALSE, value |-> <<>>]
  /\ container = [text |-> "initial", marker |-> FALSE, label |-> "none"]
  /\ countValue = [exists |-> FALSE, text |-> <<>>, label |-> <<>>]
  /\ uuids = 0
  /\ requests = <<>>
  /\ delays = <<>>
  /\ outcomes = <<>>
  /\ lastResponse = NoResponse
  /\ lastBody = NoBody
  /\ opState = [m \in Methods |-> "idle"]
  /\ opError = [m \in Methods |-> "none"]
  /\ count = Undefined
  /\ renders = [count |-> 0, error |-> 0]
  /\ initCalls = 0
  /\ unloaded = "no"
  /\ fired = {}

\* --------------------------------------------------------------- routines
\* Each routine maps the state record to the state record it leaves.

\* handleError (l. 208-217)
handleError(s) ==
  IF s.config.elementExists
    THEN [s EXCEPT !.container = [text |-> ErrorMessage, marker |-> TRUE, label |-> ErrorLabel],
                   !.countValue = [exists |-> FALSE, text |-> <<>>, label |-> <<>>],
                   !.renders.error = @ + 1]
    ELSE s

\* updateDOM appending to the element's text instead of replacing it
updateDOM_append(s, c) ==
  LET stored == [s EXCEPT !.storage = [set |-> TRUE, value |-> Sanitize(c)]]
      cachedCount == stored.storage.value
  IN  IF stored.countValue.exists
        THEN [stored EXCEPT !.countValue.text = @ \o cachedCount,
                            !.countValue.label = CountLabel \o cachedCount,
                            !.renders.count = @ + 1]
        ELSE stored

\* updateDOM (l. 193-206)
updateDOM(s, c) ==
  LET stored == [s EXCEPT !.storage = [set |-> TRUE, value |-> Sanitize(c)]]
      cachedCount == stored.storage.value
  IN  IF stored.countValue.exists
        THEN [stored EXCEPT !.countValue.text = cachedCount,
                            !.countValue.label = CountLabel \o cachedCount,
                            !.renders.count = @ + 1]
        ELSE stored

\* one pass of the loop head of fetchWithRetryAndTimeout (l. 77-88): arm the
\* timeout timer and call fetch() with the shared signal.  A fetch() called
\* with an already aborted signal sends nothing and rejects.
startAttempt(s) ==
  LET id == Len(s.requests) + 1
  IN  [s EXCEPT !.timers = @ \cup {id},
                !.timeoutId = id,
                !.requests = Append(@, [method |-> s.options.method,
                                         correlationId |-> s.options.correlationId,
                                         attempt |-> s.i,
                                         sent |-> ~s.aborted]),
                !.lastResponse = NoResponse,
                !.pc = "fetching"]

\* makeRequest sending one fixed correlation identifier
makeRequest_fixedId(s, m) ==
  LET built == [s EXCEPT !.method = m,
                         !.uuids = @ + 1,
                         !.options = [method |-> m, correlationId |-> 1],
                         !.opState[m] = "running",
                         !.delays = <<>>,
                         !.outcomes = <<>>,
                         !.lastBody = NoBody,
                         !.i = 0]
  IN  startAttempt(built)


\* makeRequest up to its first await (l. 121-145), entering the retry loop
makeRequest(s, m) ==
  LET built == [s EXCEPT !.method = m,
                         !.uuids = @ + 1,
                         !.options = [method |-> m, correlationId |-> s.uuids + 1],
                         !.opState[m] = "running",
                         !.delays = <<>>,
                         !.outcomes = <<>>,
                         !.lastBody = NoBody,
                         !.i = 0]
  IN  startAttempt(built)

\* updateVisitorCount (l. 162-166) and incrementVisitorCount (l. 173-178)
updateVisitorCount(s) == makeRequest(s, "GET")

incrementVisitorCount(s) == makeRequest(s, "POST")

\* the catch blocks with incrementVisitorCount swallowing the error, so that
\* initialize goes on to the read
operationFailed_swallowed(s, error) ==
  LET thrown == [s EXCEPT !.opState[s.method] = "failed", !.opError[s.method] = error]
  IN  IF s.method = "POST" THEN updateVisitorCount(handleError(thrown))
      ELSE [handleError(handleError(thrown)) EXCEPT !.pc = "done"]

\* the catch blocks without any rendering of the error
operationFailed_noRender(s, error) ==
  [s EXCEPT !.opState[s.method] = "failed", !.opError[s.method] = error, !.pc = "done"]

\* the catch blocks above fetchWithRetryAndTimeout: makeRequest (l. 156-159)
\* rethrows, the operation (l. 167-170, 179-182) renders the error and
\* rethrows, and initialize (l. 60-62) renders it again.
operationFailed(s, error) ==
  LET thrown == [s EXCEPT !.opState[s.method] = "failed", !.opError[s.method] = error]
  IN  [handleError(handleError(thrown)) EXCEPT !.pc = "done"]

\* the catch block waiting RETRY_DELAY before every retry
attemptFailed_constantDelay(s, error) ==
  LET cleared == [s EXCEPT !.timers = @ \ {s.timeoutId}, !.outcomes = Append(@, error)]
  IN  IF error = "AbortError" THEN operationFailed(cleared, "Request timed out")
      ELSE IF cleared.i = MAX_RETRIES - 1 THEN operationFailed(cleared, error)
      ELSE [cleared EXCEPT !.delays = Append(@, RETRY_DELAY), !.pc = "backoff"]

\* the catch block without the AbortError case: an abort is retried
attemptFailed_retryAbort(s, error) ==
  LET cleared == [s EXCEPT !.timers = @ \ {s.timeoutId}, !.outcomes = Append(@, error)]
  IN  IF cleared.i = MAX_RETRIES - 1 THEN operationFailed(cleared, error)
      ELSE [cleared EXCEPT !.delays = Append(@, RETRY_DELAY * Pow2(cleared.i)), !.pc = "backoff"]

\* catch block of fetchWithRetryAndTimeout (l. 102-117)
attemptFailed(s, error) ==
  LET cleared == [s EXCEPT !.timers = @ \ {s.timeoutId}, !.outcomes = Append(@, error)]
  IN  IF error = "AbortError" THEN operationFailed(cleared, "Request timed out")
      ELSE IF cleared.i = MAX_RETRIES - 1 THEN operationFailed(cleared, error)
      ELSE [cleared EXCEPT !.delays = Append(@, RETRY_DELAY * Pow2(cleared.i)), !.pc = "backoff"]

\* initialize up to its first await (l. 44-57)
initialize(s) ==
  LET called == [s EXCEPT !.initCalls = @ + 1]
  IN  IF ~isValidUrl(called.config.API_URL)
        THEN [handleError(called) EXCEPT !.pc = "done"]
      ELSE IF ~called.config.elementExists
        \* visitorCountElement is null: setting innerHTML throws a TypeError
        THEN [handleError(called) EXCEPT !.pc = "done"]
      ELSE incrementVisitorCount(
             [called EXCEPT !.container.text = "count-value",
                            !.countValue = [exists |-> TRUE, text |-> LoadingText, label |-> <<>>]])

\* makeRequest and the operation storing the count before validating it
bodyReceived_storeFirst(s, body) ==
  LET got == [s EXCEPT !.lastBody = body]
  IN  IF body.parse = "SyntaxError" THEN operationFailed(got, "SyntaxError")
      ELSE LET shown == updateDOM([got EXCEPT !.count = body.count], body.count)
               ok == [shown EXCEPT !.opState[s.method] = "ok"]
           IN  IF ~isValidVisitorCount(body.count)
                 THEN operationFailed(shown, "Invalid visitor count received")
               ELSE IF s.method = "POST" THEN updateVisitorCount(ok)
               ELSE [ok EXCEPT !.pc = "done"]

\* makeRequest after response.json() resolved (l. 146-155), and the rest of
\* the operation and of initialize that runs in the same turn (l. 57-59,
\* 165-166, 176-178)
bodyReceived(s, body) ==
  LET got == [s EXCEPT !.lastBody = body]
  IN  IF body.parse = "SyntaxError" THEN operationFailed(got, "SyntaxError")
      ELSE IF ~isValidVisitorCount(body.count)
        THEN operationFailed(got, "Invalid visitor count received")
      ELSE LET shown == updateDOM([got EXCEPT !.count = body.count], body.count)
               ok == [shown EXCEPT !.opState[s.method] = "ok"]
           IN  IF s.method = "POST" THEN updateVisitorCount(ok)
               ELSE [ok EXCEPT !.pc = "done"]

\* fetch() settled, with the timer cleared only in the catch block
fetchSettled_noClear(s, response) ==
  LET got == [s EXCEPT !.lastResponse = response]
  IN  IF response.kind = "TypeError" THEN attemptFailed(got, "TypeError")
      ELSE IF ~ResponseOk(response) THEN attemptFailed(got, "HTTP error")
      ELSE IF ~IncludesJson(response.contentType)
        THEN attemptFailed(got, "Invalid response content-type")
      ELSE [got EXCEPT !.outcomes = Append(@, "ok"), !.pc = "body"]

\* fetch() settled (l. 85-101): a rejection with a TypeError (network
\* failure) or a response, checked for status and content type
fetchSettled(s, response) ==
  LET got == [s EXCEPT !.lastResponse = response]
      cleared == [got EXCEPT !.timers = @ \ {s.timeoutId}]
  IN  IF response.kind = "TypeError" THEN attemptFailed(got, "TypeError")
      ELSE IF ~ResponseOk(response) THEN attemptFailed(cleared, "HTTP error")
      ELSE IF ~IncludesJson(response.contentType)
        THEN attemptFailed(cleared, "Invalid response content-type")
      ELSE [cleared EXCEPT !.outcomes = Append(@, "ok"), !.pc = "body"]

\* ---------------------------------------------------------------- actions
InFlight == pc \in {"fetching", "body"}

\* a rejection of the awaited promise is queued and runs before any task
RejectionPending == InFlight /\ aborted

\* the constructor registering the ready listener and also initializing
Constructor_alwaysInitialize ==
  /\ pc = "new"
  /\ LET registered == [State EXCEPT !.listeners = {"unload"}]
     IN  IF config.readyState = "loading"
           THEN Becomes(initialize([registered EXCEPT !.listeners = {"DOMContentLoaded", "unload"}]))
           ELSE Becomes(initialize(registered))

\* constructor (l. 12-17) with initializeEventListeners (l. 29-42)
Constructor ==
  /\ pc = "new"
  /\ LET registered == [State EXCEPT !.listeners = {"unload"}]
     IN  IF config.readyState = "loading"
           THEN Becomes([registered EXCEPT !.listeners = {"DOMContentLoaded", "unload"},
                                           !.pc = "waiting"])
           ELSE Becomes(initialize(registered))

\* the document's ready signal, delivered once (l. 31)
DOMContentLoaded ==
  /\ "DOMContentLoaded" \in listeners
  /\ config.readyState = "loading"
  /\ Becomes(initialize([State EXCEPT !.config.readyState = "complete"]))

\* the unload listener also reporting the cleanup through handleError
Unload_rendersError ==
  /\ "unload" \in listeners
  /\ ~RejectionPending
  /\ Becomes(handleError(
       [State EXCEPT !.aborted = TRUE,
                     !.unloaded = IF @ # "no" THEN @
                                  ELSE IF InFlight THEN "inflight" ELSE "idle"]))

\* the unload listener (l. 38-41)
Unload ==
  /\ "unload" \in listeners
  /\ ~RejectionPending
  /\ Becomes([State EXCEPT !.aborted = TRUE,
                           !.unloaded = IF @ # "no" THEN @
                                        ELSE IF InFlight THEN "inflight" ELSE "idle"])

\* the timeout callback of an armed timer (l. 80-82)
Timeout ==
  /\ ~RejectionPending
  /\ \E id \in timers :
       Becomes([State EXCEPT !.aborted = TRUE, !.timers = @ \ {id}, !.fired = @ \cup {id}])

\* fetch() rejects with an AbortError (l. 102-108)
FetchAborted ==
  /\ pc = "fetching"
  /\ aborted
  /\ Becomes(attemptFailed(State, "AbortError"))

\* response.json() rejects with an AbortError (l. 146, 156-159)
BodyAborted ==
  /\ pc = "body"
  /\ aborted
  /\ Becomes(operationFailed(State, "AbortError"))

\* the network answers the request in flight, or fails it
FetchSettled ==
  /\ pc = "fetching"
  /\ ~aborted
  /\ \E response \in Responses : Becomes(fetchSettled(State, response))

\* the body of an accepted response has been read
BodyReceived ==
  /\ pc = "body"
  /\ ~aborted
  /\ \E body \in Bodies : Becomes(bodyReceived(State, body))

\* the backoff delay has elapsed (l. 116): next pass of the loop
BackoffElapsed ==
  /\ pc = "backoff"
  /\ Becomes(startAttempt([State EXCEPT !.i = @ + 1]))

Next ==
  \/ Constructor
  \/ DOMContentLoaded
  \/ Unload
  \/ Timeout
  \/ FetchAborted
  \/ BodyAborted
  \/ FetchSettled
  \/ BodyReceived
  \/ BackoffElapsed

Spec == Init /\ [][Next]_vars

\* The host runs the constructor, delivers the ready signal, settles or
\* times out every fetch, delivers every body and fires every delay timer;
\* promise rejections always run.  The unload event may never come.
Fairness ==
  /\ WF_vars(Constructor)
  /\ WF_vars(DOMContentLoaded)
  /\ WF_vars(FetchSettled \/ Timeout)
  /\ WF_vars(BodyReceived)
  /\ WF_vars(BackoffElapsed)
  /\ WF_vars(FetchAborted)
  /\ WF_vars(BodyAborted)

LiveSpec == Spec /\ Fairness

\* ------------------------------------------------------------- properties
ErrorDisplayed ==
  container = [text |-> ErrorMessage, marker |-> TRUE, label |-> ErrorLabel]

LastOutcome == outcomes[Len(outcomes)]

RequestsOf(m) == { k \in 1..Len(requests) : requests[k].method = m }

\* C1: with an API_URL that fails URL validation, no fetch() is ever called,
\* and once initialize() has run the container element (when the document
\* has it, as the DOM contract requires) shows the fixed error message with
\* the error marker and the error label, and control has ended.
C1_InvalidUrlNoRequests ==
  ~(LowerCase(config.API_URL.scheme) \in {"http", "https"} /\ config.API_URL.hasHost)
    => /\ requests = <<>>
       /\ uuids = 0
       /\ initCalls > 0 => /\ pc = "done"
                           /\ config.elementExists => ErrorDisplayed
                           /\ ~config.elementExists => container.text = "initial"

C1_Witness ==
  /\ config.API_URL.scheme = "ftp"
  /\ initCalls = 1
  /\ pc = "done"
  /\ ErrorDisplayed

\* C2: in an operation whose attempts all fail with an HTTP-status,
\* content-type or network error, the k-th wait (k from 1) is
\* RETRY_DELAY*2^(k-1) and follows every failed attempt but the last one;
\* the operation fails exactly when MAX_RETRIES attempts have been made, and
\* then throws the error of the last attempt.
RetryableErrors == {"HTTP error", "Invalid response content-type", "TypeError"}

C2_ExhaustedRetries ==
  (method \in Methods /\ \A k \in 1..Len(outcomes) : outcomes[k] \in RetryableErrors)
    => /\ Len(outcomes) <= MAX_RETRIES
       /\ Len(delays) = (IF Len(outcomes) < MAX_RETRIES THEN Len(outcomes) ELSE MAX_RETRIES - 1)
       /\ \A k \in 1..Len(delays) : delays[k] = RETRY_DELAY * (2 ^ (k - 1))
       /\ Cardinality(RequestsOf(method)) =
            Len(outcomes) + (IF pc = "fetching" THEN 1 ELSE 0)
       /\ opState[method] = "failed" <=> Len(outcomes) = MAX_RETRIES
       /\ opState[method] = "failed" =>
            /\ opError[method] = outcomes[MAX_RETRIES]
            /\ pc = "done"

C2_Witness ==
  /\ method = "POST"
  /\ opState["POST"] = "failed"
  /\ outcomes = <<"HTTP error", "TypeError", "Invalid response content-type">>
  /\ delays = <<1000, 2000>>
  /\ Len(requests) = 3

\* C3: once the increment (POST) has failed, whatever the reason, no GET is
\* ever issued, control has ended and the container shows the fixed error
\* message with the error marker.
C3_FailFastAfterIncrement ==
  opState["POST"] = "failed"
    => /\ RequestsOf("GET") = {}
       /\ opState["GET"] = "idle"
       /\ pc = "done"
       /\ ErrorDisplayed
       /\ ~countValue.exists

C3_Witness ==
  /\ opState["POST"] = "failed"
  /\ opError["POST"] = "Invalid visitor count received"
  /\ ErrorDisplayed
  /\ Len(requests) = 2

\* what a count is, read as a real number
NotANumber(v) == v.type # "number"

Negative(v) == v.type = "number" /\ v.neg /\ v.digits # <<"0">>

AboveMaxSafe(v) ==
  /\ v.type = "number"
  /\ ~v.neg
  /\ \/ v.form = "infinity"
     \/ v.n > Len(MAX_SAFE_INTEGER)
     \/ /\ v.n = Len(MAX_SAFE_INTEGER)
        /\ ~DigitsLeq(SubSeq(v.digits \o Zeros(v.n), 1, v.n), MAX_SAFE_INTEGER)

\* the decimal representation of a finite number, written out in full
Decimal(v) ==
  LET k == Len(v.digits)
      sign == IF v.neg /\ v.digits # <<"0">> THEN <<"-">> ELSE <<>>
  IN  sign \o
      (IF k <= v.n THEN v.digits \o Zeros(v.n - k)
       ELSE IF v.n > 0 THEN SubSeq(v.digits, 1, v.n) \o <<".">> \o SubSeq(v.digits, v.n + 1, k)
       ELSE <<"0", ".">> \o Zeros(-v.n) \o v.digits)

\* C4: a body whose count is negative, not a number or above
\* MAX_SAFE_INTEGER makes the operation fail with the validation error at
\* once (control ends, no retry), and that count is neither returned to the
\* operation nor stored.
C4_InvalidCountRejected ==
  (lastBody.parse = "ok"
     /\ (NotANumber(lastBody.count) \/ Negative(lastBody.count) \/ AboveMaxSafe(lastBody.count)))
    => /\ opState[method] = "failed"
       /\ opError[method] = "Invalid visitor count received"
       /\ pc = "done"
       /\ ErrorDisplayed

\* C5: the stored string, the displayed text and the accessibility label
\* are the decimal representation of the count the latest successful
\* operation returned.
C5_DisplayedIsReturned ==
  /\ storage.set => storage.value = Decimal(count)
  /\ (countValue.exists /\ renders.count > 0)
       => /\ countValue.text = Decimal(count)
          /\ countValue.label = CountLabel \o Decimal(count)

\* C6 as claimed: after an unload that fired while a request attempt was
\* outstanding, no step calls fetch() again or renders anything.
C6_NoRenderAfterUnload ==
  [][unloaded = "inflight" => (requests' = requests /\ renders' = renders)]_vars

\* C6 as amended: after an unload that fired while a request attempt was
\* outstanding, the signal is aborted, the pending await rejects and ends
\* the operation as failed, and no step calls fetch() again, renders a count
\* or writes the storage key; the rejection is rendered as the Error state.
C6_AbortStopsRequests ==
  [][(unloaded = "inflight") =>
       /\ aborted
       /\ requests' = requests
       /\ renders'.count = renders.count
       /\ storage' = storage
       /\ InFlight => /\ pc' = "done"
                      /\ opState'[method] = "failed"
                      /\ renders'.error = renders.error + 2
                      /\ ErrorDisplayed']_vars

C6_Witness ==
  /\ unloaded = "inflight"
  /\ pc = "done"
  /\ opState["GET"] = "failed"
  /\ ErrorDisplayed
  /\ Len(requests) = 2

\* C7 as claimed: an operation fails on a timed-out attempt only when that
\* attempt was the last of the MAX_RETRIES allowed.
TimedOut == outcomes # <<>> /\ LastOutcome = "AbortError" /\ timeoutId \in fired

C7_TimeoutRetried ==
  (TimedOut /\ opState[method] = "failed") => Len(outcomes) = MAX_RETRIES

\* C7 as amended: an attempt that timed out is never retried: whatever its
\* index, the operation fails at once with 'Request timed out', no backoff
\* wait follows it and control ends.
C7_TimeoutIsTerminal ==
  TimedOut => /\ opState[method] = "failed"
              /\ opError[method] = "Request timed out"
              /\ pc = "done"
              /\ Len(delays) = Len(outcomes) - 1
              /\ Cardinality(RequestsOf(method)) = Len(outcomes)
              /\ ErrorDisplayed

C7_Witness ==
  /\ TimedOut
  /\ Len(outcomes) = 1
  /\ method = "POST"
  /\ opError["POST"] = "Request timed out"
  /\ pc = "done"

\* C8: an attempt that received a response succeeds exactly when the status
\* is in 200..299 and the content-type header has application/json in it;
\* any other response is a failed attempt, followed by the backoff wait
\* while fewer than MAX_RETRIES attempts were made and by the failure of the
\* operation otherwise.
C8_AttemptSuccess ==
  lastResponse.kind = "response"
    => LET good == /\ lastResponse.status \in 200..299
                   /\ \E k \in DOMAIN lastResponse.contentType :
                        lastResponse.contentType[k] = "application/json"
       IN  /\ LastOutcome = "ok" <=> good
           /\ good => pc \in {"body", "done"}
           /\ ~good => /\ LastOutcome \in {"HTTP error", "Invalid response content-type"}
                       /\ Len(outcomes) < MAX_RETRIES => pc = "backoff"
                       /\ Len(outcomes) = MAX_RETRIES => (pc = "done" /\ opState[method] = "failed")

C8_Witness ==
  /\ lastResponse.kind = "response"
  /\ lastResponse.status = 200
  /\ lastResponse.contentType = <<"text/html">>
  /\ LastOutcome = "Invalid response content-type"
  /\ pc = "backoff"

\* C9: the storage key changes only in the step in which an operation
\* receives a body that passes validation, and whenever it is set it holds
\* the digits of the string form of the count that operation returned.
C9_StorageReflectsLastSuccess ==
  [][/\ (storage' # storage) =>
          /\ pc = "body"
          /\ ~aborted
          /\ lastResponse.kind = "response"
          /\ opState'[method] = "ok"
          /\ count' \in Counts
          /\ isValidVisitorCount(count')
     /\ storage'.set =>
          /\ storage'.value = SelectSeq(NumberToString(count'), IsDigit)
          /\ \E m \in Methods : opState'[m] = "ok"
     /\ (count' # count) => opState'[method] = "ok"]_vars

C9_Witness ==
  /\ storage.set
  /\ storage.value = <<"4", "2">>
  /\ opState["POST"] = "ok"
  /\ opState["GET"] = "failed"

\* C10 as claimed: no two fetch() calls of a page load carry the same
\* X-Correlation-ID.
C10_FreshIdPerAttempt ==
  \A a, b \in 1..Len(requests) :
    a # b => requests[a].correlationId # requests[b].correlationId

\* C10 as amended: a correlation identifier is generated once per operation:
\* two fetch() calls carry the same X-Correlation-ID exactly when they are
\* attempts of the same operation.
C10_FreshIdPerOperation ==
  \A a, b \in 1..Len(requests) :
    requests[a].correlationId = requests[b].correlationId
      <=> requests[a].method = requests[b].method

C10_Witness ==
  /\ Len(requests) = 4
  /\ requests[1].method = "POST"
  /\ requests[2].method = "POST"
  /\ requests[3].method = "GET"
  /\ requests[4].method = "GET"

\* C11: in every state that follows a call updateDOM(count), calling
\* updateDOM with that count once more leaves the stored string, the
\* displayed text and label, and the container as they are.
C11_RenderIdempotent ==
  storage.set
    => LET again == updateDOM(State, count)
       IN  /\ again.storage = storage
           /\ again.countValue = countValue
           /\ again.container = container

C11_Witness ==
  /\ storage.set
  /\ storage.value = <<"4", "2">>
  /\ countValue.exists
  /\ countValue.text = <<"4", "2">>
  /\ renders.count = 2
  /\ opState["GET"] = "ok"

\* C12: a timeout timer is armed only while its own fetch() is awaited: at
\* most one is armed, it is the one of the latest fetch() call, none is
\* armed during a body read, a backoff wait or after the operations ended,
\* and a timer that fired belonged to the attempt then in flight, which is
\* the last attempt of the page load.
C12_OneTimerPerAttempt ==
  /\ Cardinality(timers) <= 1
  /\ timers # {} => /\ pc = "fetching"
                    /\ timers = {timeoutId}
                    /\ timeoutId = Len(requests)
  /\ fired # {} => fired = {Len(requests)}

C12_Witness ==
  /\ pc = "backoff"
  /\ method = "GET"
  /\ Len(outcomes) = 2
  /\ timers = {}
  /\ fired = {}

\* C13: fetch() is called only when no attempt is outstanding, so at most
\* one request is in flight; and the first GET is called in the step in
\* which the POST's body passed validation and was stored and rendered.
Outstanding ==
  IF method \in Methods THEN Cardinality(RequestsOf(method)) - Len(outcomes) ELSE 0

C13_OneRequestInFlight ==
  [][/\ Outstanding' \in {0, 1}
     /\ (Outstanding' = 1) <=> (pc' = "fetching")
     /\ (requests' # requests) =>
          /\ Len(requests') = Len(requests) + 1
          /\ Outstanding = 0
          /\ pc # "fetching"
          /\ (requests'[Len(requests')].method = "GET" /\ RequestsOf("GET") = {}) =>
               /\ pc = "body"
               /\ method = "POST"
               /\ Len(outcomes) = Cardinality(RequestsOf("POST"))
               /\ opState'["POST"] = "ok"
               /\ isValidVisitorCount(count')
               /\ storage'.set
               /\ renders'.count = renders.count + 1]_vars

C13_Witness ==
  /\ method = "GET"
  /\ pc = "fetching"
  /\ Len(outcomes) = 1
  /\ Cardinality(RequestsOf("GET")) = 2
  /\ Cardinality(RequestsOf("POST")) = 2

\* C14: once the container shows the Error state, or the read has succeeded
\* and its count is displayed, no step changes the container or the value
\* element.
C14_TerminalDisplay ==
  [][(ErrorDisplayed \/ opState["GET"] = "ok") =>
       /\ container' = container
       /\ countValue' = countValue
       /\ pc = "done"
       /\ pc' = "done"]_vars

C14_Witness ==
  /\ opState["GET"] = "ok"
  /\ countValue.exists
  /\ pc = "done"
  /\ unloaded = "idle"

\* C15: when the page load has ended, the operation in progress reported
\* 'Request timed out' exactly if the timer of its last attempt had fired.
C15_TimeoutOnlyWhenTimerFired ==
  (pc = "done" /\ method \in Methods)
    => (opError[method] = "Request timed out" <=> timeoutId \in fired)

\* C16: initialize() has run exactly once as soon as the constructor has
\* run in a document that was not loading, or the ready signal has been
\* delivered; before that it has not run and the ready listener is
\* registered; it never runs a second time.
C16_InitializeOnce ==
  /\ initCalls <= 1
  /\ pc = "new" => initCalls = 0
  /\ pc = "waiting" => /\ initCalls = 0
                       /\ config.readyState = "loading"
                       /\ "DOMContentLoaded" \in listeners
  /\ pc \notin {"new", "waiting"} => /\ initCalls = 1
                                     /\ config.readyState = "complete"

C16_Witness ==
  /\ "DOMContentLoaded" \in listeners
  /\ initCalls = 1
  /\ pc = "done"
  /\ opState["GET"] = "ok"

\* C17: with a valid endpoint and no container element in the document,
\* initialize() still issues the POST, and a validated response is stored.
C17_MissingElementNotFatal ==
  (~config.elementExists /\ isValidUrl(config.API_URL) /\ initCalls > 0)
    => /\ RequestsOf("POST") # {}
       /\ opState["POST"] = "ok" => storage.set

\* C18 as claimed: a body whose count is the string "42" is accepted: the
\* operation succeeds and 42 is stored.
C18_StringCountAccepted ==
  (lastBody.parse = "ok" /\ lastBody.count = Str(<<"4", "2">>))
    => /\ opState[method] = "ok"
       /\ storage = [set |-> TRUE, value |-> <<"4", "2">>]

\* C18 as amended: a body whose count is a string, numeric or not, fails
\* validation: the operation fails with the validation error without a
\* further attempt, the string is not returned as a count and the Error
\* state is shown.
C18_StringCountRejected ==
  (lastBody.parse = "ok" /\ lastBody.count.type = "string")
    => /\ opState[method] = "failed"
       /\ opError[method] = "Invalid visitor count received"
       /\ pc = "done"
       /\ count.type # "string"
       /\ Len(outcomes) = Cardinality(RequestsOf(method))
       /\ ErrorDisplayed

C18_Witness ==
  /\ lastBody.count = Str(<<"4", "2">>)
  /\ opState["POST"] = "failed"
  /\ ~storage.set
  /\ Len(requests) = 1

C20_NoPostAfter2xx ==
  [][(/\ method = "POST"
      /\ lastResponse.kind = "response"
      /\ lastResponse.status \in 200..299
      /\ requests' # requests)
       => requests'[Len(requests')].method # "POST"]_vars
====
